---- MODULE Spec2Model ----
(***************************************************************************)
(* Model of src/script.js: the browser front end that validates a chosen   *)
(* image, previews it, runs the green-ratio heuristic, POSTs the image to  *)
(* the classifier under a timeout and interprets the reply.                *)
(*                                                                         *)
(* The state is the DOM state the script reads and writes, plus the        *)
(* position of every pending invocation of the two asynchronous handlers   *)
(* (the "change" listener and onAnalyzeClick).  JavaScript runs a handler  *)
(* to its next await without interruption, so one action is one such run.  *)
(***************************************************************************)
EXTENDS Integers, Sequences, FiniteSets, TLC

(* ------------------------------ bounds --------------------------------- *)
\* number of user events (file selections and clicks on an analyze button)
\* in one behaviour
MaxEvents == 4

\* the change handlers, and the onAnalyzeClick calls (a click needs an earlier
\* selection, which enables the buttons)
Sel == 1..MaxEvents
Att == 1..(MaxEvents - 1)

(* ------------------------- configuration (l.21-25) --------------------- *)
MAX_SIZE == 5 * 1024 * 1024
MIN_DIM == 64
\* confidences are carried in millionths (0.70 = 700000)
CONFIDENCE_THRESHOLD == 700000
\* the timeout onAnalyzeClick passes to fetchWithTimeout, in ms
ANALYZE_TIMEOUT == 20000
\* the timeout fetchWithTimeout uses when its options carry none, in ms
DEFAULT_TIMEOUT == 15000
\* an options object without a timeout property
NoTimeout == -1

\* l.46: const { timeout = 15000 } = options
TimeoutOf(given) == IF given = NoTimeout THEN DEFAULT_TIMEOUT ELSE given

(* ------------------------------ files ---------------------------------- *)
\* declared MIME types, as character sequences so that startsWith is computed
T_png   == <<"i","m","a","g","e","/","p","n","g">>
T_jpeg  == <<"i","m","a","g","e","/","j","p","e","g">>
T_image == <<"i","m","a","g","e">>
T_text  == <<"t","e","x","t","/","p","l","a","i","n">>
T_none  == <<>>
ImagePrefix == <<"i","m","a","g","e","/">>

\* String.prototype.startsWith
StartsWith(s, p) == Len(s) >= Len(p) /\ SubSeq(s, 1, Len(p)) = p

\* pixel buffers of the 64x64 downsample, shortened to a few <<r,g,b>> pixels
PxLeaf  == << <<40, 200, 30>>, <<60, 180, 50>> >>
PxRed   == << <<250, 4, 250>>, <<240, 6, 240>> >>

\* fileInput.files[0] when nothing is selected (undefined in the script)
NoFile == [present |-> FALSE, name |-> "none", type |-> T_none, size |-> 0,
           decodable |-> FALSE, width |-> 0, height |-> 0, data |-> <<>>]

MkFile(n, t, s, d, w, h, px) ==
    [present |-> TRUE, name |-> n, type |-> t, size |-> s,
     decodable |-> d, width |-> w, height |-> h, data |-> px]

\* the files a user picks in the pipeline model
F_good   == MkFile("good",   T_jpeg, 2 * 1024 * 1024, TRUE, 800, 600, PxLeaf)
F_edge   == MkFile("edge",   T_png,  MAX_SIZE,        TRUE, 64, 64,   PxRed)
F_tiny   == MkFile("tiny",   T_png,  1000,            TRUE, 63, 600,  PxLeaf)
F_broken == MkFile("broken", T_png,  1000,            FALSE, 0, 0,    <<>>)
F_big    == MkFile("big",    T_jpeg, MAX_SIZE + 1,    TRUE, 800, 600, PxLeaf)
F_text   == MkFile("text",   T_text, 1000,            FALSE, 0, 0,    <<>>)

PickableFiles == {F_good, F_edge, F_tiny, F_broken, F_big, F_text, NoFile}

\* the state holds files by name
None == NoFile.name
FileNamed(n) == CHOOSE f \in PickableFiles : f.name = n

(* ------------------------- validateFile (l.63-68) ---------------------- *)
ErrNoFile  == "No file selected."
ErrType    == "Please choose an image file (jpg, png)."
ErrTooBig  == "File is too large. Max 5MB."
NoError    == "null"

\* mutant: the size rule is tested before the type rule
validateFile_SizeFirst(file) ==
    IF ~file.present THEN ErrNoFile
    ELSE IF file.size > MAX_SIZE THEN ErrTooBig
    ELSE IF ~StartsWith(file.type, ImagePrefix) THEN ErrType
    ELSE NoError

\* mutant: the size rule rejects a file of exactly MAX_SIZE bytes
validateFile_Strict(file) ==
    IF ~file.present THEN ErrNoFile
    ELSE IF ~StartsWith(file.type, ImagePrefix) THEN ErrType
    ELSE IF file.size >= MAX_SIZE THEN ErrTooBig
    ELSE NoError

validateFile(file) ==
    IF ~file.present THEN ErrNoFile
    ELSE IF ~StartsWith(file.type, ImagePrefix) THEN ErrType
    ELSE IF file.size > MAX_SIZE THEN ErrTooBig
    ELSE NoError

(* --------------------- greenRatioHeuristic (l.82-105) ------------------ *)
RECURSIVE SumG(_), SumRGB(_)
\* gSum of the loop at l.94-98
SumG(data) == IF data = <<>> THEN 0 ELSE Head(data)[2] + SumG(Tail(data))
\* 3 * total of the loop at l.94-98 (total adds (r+g+b)/3 per pixel)
SumRGB(data) ==
    IF data = <<>> THEN 0
    ELSE Head(data)[1] + Head(data)[2] + Head(data)[3] + SumRGB(Tail(data))

\* mutant: green's share of the channel sum, total taken without the division by 3
RatioOfBuffer_GreenShare(data) ==
    IF SumG(data) = 0 THEN 0 ELSE (1000 * SumG(data) - 1) \div SumRGB(data)

\* l.99: ratio = gSum / (total + 1e-9), in thousandths rounded down.  With
\* total = S/3 the quotient is 3*gSum / (S + 3e-9): just below 3*gSum/S, and 0
\* when gSum = 0 (then the denominator is at least 1e-9).
RatioOfBuffer(data) ==
    IF SumG(data) = 0 THEN 0 ELSE (3000 * SumG(data) - 1) \div SumRGB(data)

\* the value the promise resolves with: l.100 after a decode, l.102 after onerror
greenRatioHeuristic(file) ==
    IF file.decodable THEN RatioOfBuffer(file.data) ELSE 0

\* l.160: greenRatio < 0.18
GREEN_WARN == 180

(* ------------------------- server replies ------------------------------ *)
\* JavaScript values of the fields the script reads
Undef  == [t |-> "undefined", s |-> "", n |-> 0]
Str(x) == [t |-> "string", s |-> x, n |-> 0]
\* numbers are confidences, in millionths
Num(k) == [t |-> "number", s |-> "", n |-> k]
\* an array or object; s is the text String() makes of it
Obj(x) == [t |-> "object", s |-> x, n |-> 0]
\* ToBoolean, as used by ! and ||
Truthy(v) ==
    \/ v.t = "string" /\ v.s # ""
    \/ v.t = "number" /\ v.n # 0
    \/ v.t = "object"

\* a response body: its text, and what JSON.parse makes of it
\* (kind "object", "null", or "error" when the text is not JSON)
MkBody(raw, kind, cls, conf, detail) ==
    [raw |-> raw, kind |-> kind, class |-> cls, confidence |-> conf, detail |-> detail]

B_healthy == MkBody("{class:Healthy,confidence:0.92}", "object", Str("Healthy"), Num(920000), Undef)
B_at      == MkBody("{class:Late,confidence:0.70}", "object", Str("Late"), Num(700000), Undef)
B_below   == MkBody("{class:Late,confidence:0.699999}", "object", Str("Late"), Num(699999), Undef)
B_over    == MkBody("{class:Healthy,confidence:1.5}", "object", Str("Healthy"), Num(1500000), Undef)
B_noconf  == MkBody("{class:Healthy}", "object", Str("Healthy"), Undef, Undef)
B_strconf == MkBody("{class:Healthy,confidence:'0.9'}", "object", Str("Healthy"), Str("0.9"), Undef)
B_noclass == MkBody("{class:'',confidence:0.9}", "object", Str(""), Num(900000), Undef)
B_null    == MkBody("null", "null", Undef, Undef, Undef)
B_html    == MkBody("<html>Bad Gateway</html>", "error", Undef, Undef, Undef)
B_empty   == MkBody("", "error", Undef, Undef, Undef)
B_detail  == MkBody("{detail:model unavailable}", "object", Undef, Undef, Str("model unavailable"))
B_other   == MkBody("{error:overloaded}", "object", Undef, Undef, Undef)
B_list    == MkBody("{detail:[{msg:field required}]}", "object", Undef, Undef,
                    Obj("[object Object]"))

\* bodies sent with a 2xx status, and with any other status
OkBodies  == {B_healthy, B_at, B_below, B_over, B_noconf, B_strconf, B_noclass,
              B_null, B_html, B_empty}
ErrBodies == {B_detail, B_other, B_list, B_null, B_html, B_empty}

\* l.209: `${(confidence * 100).toFixed(1)}%` for a confidence c >= 0 in millionths
ToFixed1Pct(c) ==
    LET tenths == (c + 500) \div 1000
    IN  ToString(tenths \div 10) \o "." \o ToString(tenths % 10) \o "%"

(* ------------------------------ messages ------------------------------- *)
MsgNone       == ""
MsgTooSmall   == "Image resolution is too small. Use a clearer picture."
MsgUnreadable == "Couldn't read image. Try another file."
MsgChecking   == "Checking image..."
MsgNotLeaf    == "Image doesn't look like a leaf - analysis may be inaccurate."
MsgAnalyzing  == "Analyzing image - please wait..."
MsgServerErr  == "Server error"
MsgUnexpected == "Unexpected server response."
MsgLowConf    == "Model confidence is low - image might not be a potato leaf or is unclear."
MsgTimeout    == "Request timed out. Try again later."
MsgNetwork    == "Network error. Check your connection or try again."
\* resetResult writes an em dash into both result fields
Dash          == "-"

(* ------------------------------- state --------------------------------- *)
VARIABLES
    files,                \* name of fileInput.files[0], None when the input is empty
    statusText,           \* statusEl.textContent
    statusError,          \* statusEl is painted as an error
    spinnerHidden,        \* spinner.hidden
    resultHidden,         \* resultEl.hidden
    resultClassText,      \* resultClass.textContent
    resultConfText,       \* resultConfidence.textContent
    explainHidden,        \* explain.hidden
    previewSrc,           \* name of the file previewImg shows, "none" before any
    previewRowHidden,     \* previewRow.hidden
    initialActionsHidden, \* #initial-actions .hidden
    analyzeDisabled,      \* analyzeBtn.disabled and analyzeBtn2.disabled
    nSel,                 \* "change" events dispatched so far
    selPc,                \* per change handler: "idle", "probe" (awaiting l.121), "done"
    selFile,              \* per change handler: its local `file` (None once it returned)
    nAtt,                 \* clicks on an analyze button so far
    attPc,                \* per onAnalyzeClick call: "idle", "heuristic" (l.158),
                          \* "fetch" (l.174), "text" (l.181), "json" (l.192), "done"
    attFile,              \* per call: its local `file` (None once it returned)
    timer,                \* per call: the setTimeout of l.48: its state ("unset", "armed",
                          \* "cleared", "fired") and its delay in ms
    net,                  \* per call: the transfer: "none", "pending" (request sent),
                          \* "headers" (body arriving), "closed", "aborted"
    posts,                \* per call: number of POSTs issued
    liveUrls,             \* object URLs created (URL.createObjectURL) and not revoked
    vFile,                \* the argument of a call of validateFile on its own
                          \* (None where there is no such call)
    vErr,                 \* what that call returned, "unset" before it
    hFile,                \* the argument of a call of greenRatioHeuristic on its own
                          \* (None before any)
    hRatio                \* what its promise resolved with, in thousandths; NoRatio
                          \* before any call, Pending until it resolves

domVars == <<files, statusText, statusError, spinnerHidden, resultHidden,
             resultClassText, resultConfText, explainHidden, previewSrc,
             previewRowHidden, initialActionsHidden, analyzeDisabled>>
resultVars == <<resultHidden, resultClassText, resultConfText, explainHidden>>
previewVars == <<previewSrc, previewRowHidden, initialActionsHidden, analyzeDisabled>>
selVars == <<nSel, selPc, selFile>>
attVars == <<nAtt, attPc, attFile, timer, net, posts>>
valVars == <<vFile, vErr, hFile, hRatio>>
vars == <<domVars, selVars, attVars, valVars, liveUrls>>

\* the page after DOMContentLoaded (l.229-232): nothing chosen, nothing shown,
\* both analyze buttons disabled
PageLoaded ==
    /\ files = None
    /\ statusText = MsgNone /\ statusError = FALSE
    /\ spinnerHidden = TRUE
    /\ resultHidden = TRUE /\ resultClassText = Dash /\ resultConfText = Dash
    /\ explainHidden = TRUE
    /\ previewSrc = "none" /\ previewRowHidden = TRUE
    /\ initialActionsHidden = FALSE
    /\ analyzeDisabled = TRUE
    /\ nSel = 0
    /\ selPc = [s \in Sel |-> "idle"]
    /\ selFile = [s \in Sel |-> None]
    /\ nAtt = 0
    /\ attPc = [a \in Att |-> "idle"]
    /\ attFile = [a \in Att |-> None]
    /\ timer = [a \in Att |-> [st |-> "unset", ms |-> 0]]
    /\ net = [a \in Att |-> "none"]
    /\ posts = [a \in Att |-> 0]
    /\ liveUrls = 0

\* greenRatioHeuristic not called yet, and called but not resolved yet
NoRatio == -1
Pending == -2

Init ==
    /\ PageLoaded
    /\ vFile = None
    /\ vErr = "unset"
    /\ hFile = None
    /\ hRatio = NoRatio

(* ------------------------------ helpers -------------------------------- *)
\* setStatus (l.28-31)
setStatus(msg, isError) ==
    /\ statusText' = msg
    /\ statusError' = isError

\* mutant: the spinner is shown whatever the argument
showSpinner_AlwaysShows(show) == spinnerHidden' = FALSE

\* showSpinner (l.33-35)
showSpinner(show) == spinnerHidden' = ~show

\* URL.createObjectURL (l.77, l.103, l.134); the script never calls
\* URL.revokeObjectURL
createObjectURL == liveUrls' = liveUrls + 1

\* resetResult (l.37-42)
resetResult ==
    /\ resultHidden' = TRUE
    /\ resultClassText' = Dash
    /\ resultConfText' = Dash
    /\ explainHidden' = TRUE

(* --------------------- "change" listener (l.108-139) ------------------- *)
\* The user picks f (NoFile: the dialog is cancelled, which empties a filled
\* input).  The handler runs to `await readImageDimensions(file)` or returns.
FileSelected(f) ==
    /\ nSel + nAtt < MaxEvents
    /\ f = NoFile => files # None
    /\ LET s == nSel + 1
           err == validateFile(f)
       IN  /\ nSel' = s
           /\ resetResult
           /\ IF err # NoError
              THEN /\ setStatus(err, TRUE)
                   /\ files' = None
                   /\ selPc' = [selPc EXCEPT ![s] = "done"]
                   /\ UNCHANGED <<selFile, liveUrls>>
              ELSE /\ setStatus(MsgNone, FALSE)
                   /\ files' = f.name
                   /\ selPc' = [selPc EXCEPT ![s] = "probe"]
                   /\ selFile' = [selFile EXCEPT ![s] = f.name]
                   /\ createObjectURL
    /\ UNCHANGED valVars
    /\ UNCHANGED <<spinnerHidden, previewVars, attVars>>

\* l.122: the dimension policy
TooSmall(file) == file.width < MIN_DIM \/ file.height < MIN_DIM

\* The decode started by readImageDimensions ends (onload or onerror) and the
\* handler runs to its end.
ProbeDone(s) ==
    /\ selPc[s] = "probe"
    /\ selPc' = [selPc EXCEPT ![s] = "done"]
    /\ selFile' = [selFile EXCEPT ![s] = None]
    /\ IF ~FileNamed(selFile[s]).decodable
       THEN /\ setStatus(MsgUnreadable, TRUE)
            /\ files' = None
            /\ UNCHANGED <<previewVars, liveUrls>>
       ELSE IF TooSmall(FileNamed(selFile[s]))
       THEN /\ setStatus(MsgTooSmall, TRUE)
            /\ files' = None
            /\ UNCHANGED <<previewVars, liveUrls>>
       ELSE /\ createObjectURL
            /\ previewSrc' = selFile[s]
            /\ previewRowHidden' = FALSE
            /\ analyzeDisabled' = FALSE
            /\ initialActionsHidden' = TRUE
            /\ UNCHANGED <<files, statusText, statusError>>
    /\ UNCHANGED valVars
    /\ UNCHANGED <<spinnerHidden, resultVars, nSel, attVars>>

(* ----------------------- onAnalyzeClick (l.149-218) --------------------- *)
\* A click on either analyze button (a disabled button dispatches no click).
\* The call runs to `await greenRatioHeuristic(file)` or returns at l.154.
AnalyzeClick ==
    /\ ~analyzeDisabled
    /\ nSel + nAtt < MaxEvents
    /\ LET a == nAtt + 1
           err == validateFile(FileNamed(files))
       IN  /\ nAtt' = a
           /\ resetResult
           /\ IF err # NoError
              THEN /\ setStatus(err, TRUE)
                   /\ attPc' = [attPc EXCEPT ![a] = "done"]
                   /\ UNCHANGED <<attFile, liveUrls>>
              ELSE /\ setStatus(MsgChecking, FALSE)
                   /\ attPc' = [attPc EXCEPT ![a] = "heuristic"]
                   /\ attFile' = [attFile EXCEPT ![a] = files]
                   /\ createObjectURL
    /\ UNCHANGED valVars
    /\ UNCHANGED <<files, spinnerHidden, previewVars, selVars, timer, net, posts>>

\* The heuristic's promise resolves; the call runs l.160-178: the warning of
\* l.162 is overwritten by l.167 in the same run, explain stays shown; one POST
\* is issued (l.50) and its timer armed (l.48).
HeuristicDone(a) ==
    /\ attPc[a] = "heuristic"
    /\ explainHidden' =
         IF greenRatioHeuristic(FileNamed(attFile[a])) < GREEN_WARN THEN FALSE ELSE explainHidden
    /\ setStatus(MsgAnalyzing, FALSE)
    /\ showSpinner(TRUE)
    /\ posts' = [posts EXCEPT ![a] = @ + 1]
    /\ net' = [net EXCEPT ![a] = "pending"]
    /\ timer' = [timer EXCEPT ![a] = [st |-> "armed", ms |-> TimeoutOf(ANALYZE_TIMEOUT)]]
    /\ attPc' = [attPc EXCEPT ![a] = "fetch"]
    /\ UNCHANGED valVars
    /\ UNCHANGED <<files, resultHidden, resultClassText, resultConfText, previewVars,
                   selVars, nAtt, attFile, liveUrls>>

\* l.214-215: the message and the branch chosen from the error's name
\* mutant: an abort is reported like any other rejection
CatchBranch_NoAbortCase(errName) == "network"

CatchBranch(errName) == IF errName = "AbortError" THEN "timeout" ELSE "network"

\* the catch block of l.212-217, ending the call
CatchError(a, errName) ==
    /\ showSpinner(FALSE)
    /\ setStatus(IF CatchBranch(errName) = "timeout" THEN MsgTimeout ELSE MsgNetwork, TRUE)
    /\ attPc' = [attPc EXCEPT ![a] = "done"]
    /\ attFile' = [attFile EXCEPT ![a] = None]

\* mutant: the reply is read without waiting for the heuristic and the request
FetchResolved_BeforeRequest(a, ok) ==
    /\ attPc[a] = "heuristic"
    /\ net' = [net EXCEPT ![a] = "headers"]
    /\ timer' = [timer EXCEPT ![a].st = "cleared"]
    /\ attPc' = [attPc EXCEPT ![a] = IF ok THEN "json" ELSE "text"]
    /\ UNCHANGED valVars
    /\ UNCHANGED <<domVars, selVars, nAtt, attFile, posts, liveUrls>>

\* fetchWithTimeout (l.45-60): the response headers arrive, the timer is
\* cleared (l.54) and the call goes on to read the body (l.181 or l.192).
FetchResolved(a, ok) ==
    /\ attPc[a] = "fetch" /\ net[a] = "pending"
    /\ net' = [net EXCEPT ![a] = "headers"]
    /\ timer' = [timer EXCEPT ![a].st = "cleared"]
    /\ attPc' = [attPc EXCEPT ![a] = IF ok THEN "json" ELSE "text"]
    /\ UNCHANGED valVars
    /\ UNCHANGED <<domVars, selVars, nAtt, attFile, posts, liveUrls>>

\* mutant: a failed request is sent once more before the failure is reported
FetchFailed_Retries(a) ==
    /\ attPc[a] = "fetch" /\ net[a] = "pending"
    /\ IF posts[a] < 2
       THEN /\ posts' = [posts EXCEPT ![a] = @ + 1]
            /\ UNCHANGED <<net, timer, attPc, attFile, statusText, statusError,
                           spinnerHidden>>
       ELSE /\ net' = [net EXCEPT ![a] = "closed"]
            /\ timer' = [timer EXCEPT ![a].st = "cleared"]
            /\ CatchError(a, "TypeError")
            /\ UNCHANGED posts
    /\ UNCHANGED valVars
    /\ UNCHANGED <<files, resultVars, previewVars, selVars, nAtt, liveUrls>>

\* fetch rejects with a TypeError (no connection): l.57-58, then l.212-217
FetchFailed(a) ==
    /\ attPc[a] = "fetch" /\ net[a] = "pending"
    /\ net' = [net EXCEPT ![a] = "closed"]
    /\ timer' = [timer EXCEPT ![a].st = "cleared"]
    /\ CatchError(a, "TypeError")
    /\ UNCHANGED valVars
    /\ UNCHANGED <<files, resultVars, previewVars, selVars, nAtt, posts, liveUrls>>

\* the timer of l.48 fires while fetch is pending: controller.abort() cancels
\* the transfer, fetch rejects with an AbortError, l.57-58, then l.212-217
TimerFire(a) ==
    /\ timer[a].st = "armed"
    /\ timer' = [timer EXCEPT ![a].st = "fired"]
    /\ net' = [net EXCEPT ![a] = "aborted"]
    /\ CatchError(a, "AbortError")
    /\ UNCHANGED valVars
    /\ UNCHANGED <<files, resultVars, previewVars, selVars, nAtt, posts, liveUrls>>

\* mutant: the body text is shown without looking for a detail
ServerMessage_RawOnly(body) ==
    IF body.raw # "" THEN body.raw ELSE MsgServerErr

\* l.181-187: the message shown for a non-2xx body text (textContent takes the
\* string conversion of a detail that is not a string)
ServerMessage(body) ==
    IF body.kind = "object" /\ Truthy(body.detail) THEN body.detail.s
    ELSE IF body.raw # "" THEN body.raw
    ELSE MsgServerErr

\* resp.text() resolves with the body of a non-2xx reply: l.182-189
TextDone(a, body) ==
    /\ attPc[a] = "text"
    /\ net' = [net EXCEPT ![a] = "closed"]
    /\ setStatus(ServerMessage(body), TRUE)
    /\ showSpinner(FALSE)
    /\ attPc' = [attPc EXCEPT ![a] = "done"]
    /\ attFile' = [attFile EXCEPT ![a] = None]
    /\ UNCHANGED valVars
    /\ UNCHANGED <<files, resultVars, previewVars, selVars, nAtt, timer, posts, liveUrls>>

\* mutant: the error exit of l.186-189 also empties the file input
TextFailed_ClearsInput(a) ==
    /\ attPc[a] = "text"
    /\ net' = [net EXCEPT ![a] = "closed"]
    /\ setStatus(MsgServerErr, TRUE)
    /\ showSpinner(FALSE)
    /\ files' = None
    /\ attPc' = [attPc EXCEPT ![a] = "done"]
    /\ attFile' = [attFile EXCEPT ![a] = None]
    /\ UNCHANGED valVars
    /\ UNCHANGED <<resultVars, previewVars, selVars, nAtt, timer, posts, liveUrls>>

\* resp.text() rejects (the connection drops): .catch gives "Server error",
\* which is not JSON, so l.186 shows it
TextFailed(a) ==
    /\ attPc[a] = "text"
    /\ net' = [net EXCEPT ![a] = "closed"]
    /\ setStatus(MsgServerErr, TRUE)
    /\ showSpinner(FALSE)
    /\ attPc' = [attPc EXCEPT ![a] = "done"]
    /\ attFile' = [attFile EXCEPT ![a] = None]
    /\ UNCHANGED valVars
    /\ UNCHANGED <<files, resultVars, previewVars, selVars, nAtt, timer, posts, liveUrls>>

\* l.195: the only test the script applies to a parsed 2xx body
Rejected(data) == ~Truthy(data.class) \/ data.confidence.t # "number"

\* l.201: the low-confidence test
IsLowConfidence(c) == c < CONFIDENCE_THRESHOLD

\* resp.json() resolves or rejects on the body of a 2xx reply: l.192-210,
\* or l.212-217 when the text is not JSON (SyntaxError) or parses to null
\* (data.class throws a TypeError after l.193)
JsonDone(a, body) ==
    /\ attPc[a] = "json"
    /\ net' = [net EXCEPT ![a] = "closed"]
    /\ IF body.kind = "error"
       THEN CatchError(a, "SyntaxError") /\ UNCHANGED resultVars
       ELSE IF body.kind = "null"
       THEN CatchError(a, "TypeError") /\ UNCHANGED resultVars
       ELSE /\ showSpinner(FALSE)
            /\ attPc' = [attPc EXCEPT ![a] = "done"]
            /\ attFile' = [attFile EXCEPT ![a] = None]
            /\ IF Rejected(body)
               THEN /\ setStatus(MsgUnexpected, TRUE)
                    /\ UNCHANGED resultVars
               ELSE /\ IF IsLowConfidence(body.confidence.n)
                       THEN setStatus(MsgLowConf, TRUE) /\ explainHidden' = FALSE
                       ELSE setStatus(MsgNone, FALSE) /\ UNCHANGED explainHidden
                    /\ resultClassText' = body.class.s
                    /\ resultConfText' = ToFixed1Pct(body.confidence.n)
                    /\ resultHidden' = FALSE
    /\ UNCHANGED valVars
    /\ UNCHANGED <<files, previewVars, selVars, nAtt, timer, posts, liveUrls>>

\* resp.json() rejects because the connection drops while the body is read
JsonFailed(a) ==
    /\ attPc[a] = "json"
    /\ net' = [net EXCEPT ![a] = "closed"]
    /\ CatchError(a, "TypeError")
    /\ UNCHANGED valVars
    /\ UNCHANGED <<files, resultVars, previewVars, selVars, nAtt, timer, posts, liveUrls>>

(* --------------------------- specification ----------------------------- *)
Next ==
    \/ \E f \in PickableFiles : FileSelected(f)
    \/ \E s \in Sel : ProbeDone(s)
    \/ AnalyzeClick
    \/ \E a \in Att : HeuristicDone(a)
    \/ \E a \in Att, ok \in BOOLEAN : FetchResolved(a, ok)
    \/ \E a \in Att : FetchFailed(a)
    \/ \E a \in Att : TimerFire(a)
    \/ \E a \in Att, body \in ErrBodies : TextDone(a, body)
    \/ \E a \in Att : TextFailed(a)
    \/ \E a \in Att, body \in OkBodies : JsonDone(a, body)
    \/ \E a \in Att : JsonFailed(a)

Spec == Init /\ [][Next]_vars

(* ------------------ validateFile applied on its own -------------------- *)
T_pdf   == <<"a","p","p","l","i","c","a","t","i","o","n","/","p","d","f">>
T_video == <<"v","i","d","e","o","/","m","p","4">>
T_gif   == <<"i","m","a","g","e","/","g","i","f">>

ValTypes == {T_png, T_jpeg, T_gif, T_image, T_text, T_pdf, T_video, T_none}
ValSizes == {0, 1, 1024 * 1024, MAX_SIZE - 1, MAX_SIZE, MAX_SIZE + 1,
             2 * MAX_SIZE, 100 * MAX_SIZE}
ValFiles == {NoFile} \cup
            {MkFile("f", t, sz, TRUE, 800, 600, PxLeaf) : t \in ValTypes, sz \in ValSizes}

ValInit ==
    /\ PageLoaded
    /\ vFile \in ValFiles
    /\ vErr = "unset"
    /\ hFile = None
    /\ hRatio = NoRatio

\* validateFile(file) is called and returns
Validate ==
    /\ vErr = "unset"
    /\ vErr' = validateFile(vFile)
    /\ UNCHANGED <<vFile, hFile, hRatio, domVars, selVars, attVars, liveUrls>>

\* another file is handed to the next call
Revalidate(f) ==
    /\ vErr # "unset"
    /\ vFile' = f
    /\ vErr' = "unset"
    /\ UNCHANGED <<hFile, hRatio, domVars, selVars, attVars, liveUrls>>

ValNext == Validate \/ \E f \in ValFiles : Revalidate(f)

ValSpec == ValInit /\ [][ValNext]_vars

(* ======================= properties of validateFile ==================== *)
\* the declared types that indicate an image, listed without startsWith
ImageTypes == {T_png, T_jpeg, T_gif}
Validated == vErr # "unset"

\* C8 as stated: every file above 5 MiB is answered with the too-large error,
\* whatever its declared type.
C8_TooLargeWhateverType ==
    Validated /\ vFile.present /\ vFile.size > MAX_SIZE => vErr = ErrTooBig

\* C8 (amended): a file above 5 MiB is answered with the too-large error when
\* its declared type is an image type, and with the invalid-type error when it
\* is not.
C8_TooLargeForImages ==
    Validated /\ vFile.present /\ vFile.size > MAX_SIZE =>
        /\ vFile.type \in ImageTypes => vErr = ErrTooBig
        /\ vFile.type \notin ImageTypes => vErr = ErrType

C8_Witness ==
    /\ Validated /\ vFile.size > MAX_SIZE
    /\ vFile.type \in ImageTypes /\ vErr = ErrTooBig

\* C9: the rules are tested in the order present, image type, size, and the
\* first failing one alone is reported: no file gives the missing-file error,
\* a non-image type the invalid-type error at any size, an image type above
\* 5 MiB the too-large error, and anything else (5 MiB exactly included) passes.
C9_FirstFailingRuleWins ==
    Validated =>
        /\ ~vFile.present => vErr = ErrNoFile
        /\ vFile.present /\ vFile.type \notin ImageTypes => vErr = ErrType
        /\ vFile.present /\ vFile.type \in ImageTypes /\ vFile.size > MAX_SIZE
              => vErr = ErrTooBig
        /\ vFile.present /\ vFile.type \in ImageTypes /\ vFile.size <= MAX_SIZE
              => vErr = NoError
        /\ vErr = NoError =>
              vFile.present /\ vFile.type \in ImageTypes /\ vFile.size <= MAX_SIZE

C9_Witness ==
    /\ Validated /\ vFile.present
    /\ vFile.type \in ImageTypes /\ vFile.size = MAX_SIZE /\ vErr = NoError

(* ======================= properties of the pipeline ==================== *)
\* where an analyze attempt stands, in the words of the pipeline's states
Checking(a) == attPc[a] = "heuristic"
Sending(a)  == attPc[a] \in {"fetch", "text", "json"}
InFlight(a) == Checking(a) \/ Sending(a)
ResultShown == ~resultHidden

\* C1: a result is on display only when no attempt is checking or sending;
\* since every analyze request clears the result before its round trip, no
\* result is on display while any attempt is under way.
C1_ResultOnlyWhenReady ==
    ResultShown => \A a \in Att : ~InFlight(a)

\* C2: at most one attempt is under way at any time, and while one is, the
\* analyze trigger is disabled.
C2_OneAttemptInFlight ==
    /\ Cardinality({a \in Att : InFlight(a)}) <= 1
    /\ (\E a \in Att : InFlight(a)) => analyzeDisabled

\* a file that satisfies the type, size and resolution policy
ValidatedImage(f) ==
    /\ f.present
    /\ f.type \in ImageTypes
    /\ f.size <= MAX_SIZE
    /\ f.decodable /\ f.width >= 64 /\ f.height >= 64

\* C3: every file handed to the heuristic or carried by a POST satisfies the
\* type, size and 64 px resolution policy.
C3_OnlyValidatedImagesSent ==
    \A a \in Att : InFlight(a) => ValidatedImage(FileNamed(attFile[a]))

\* the step in which the timer of attempt a fires
TimerFires(a) == timer[a].st = "armed" /\ timer'[a].st = "fired"

\* C5: the timer fires only while the network call is unresolved; when it
\* does, it is the 20000 ms timer, the transfer is aborted, the attempt ends
\* and reports the timeout, not a result nor another error; from then on the
\* attempt takes no step, its transfer stays aborted and its single POST is
\* not followed by another.
C5_TimeoutIsFinal ==
    [][\A a \in Att :
          /\ TimerFires(a) =>
                /\ attPc[a] = "fetch" /\ net[a] = "pending"
                /\ timer[a].ms = 20000
                /\ net'[a] = "aborted"
                /\ attPc'[a] = "done"
                /\ statusText' = MsgTimeout /\ statusError'
                /\ spinnerHidden'
                /\ resultHidden' = resultHidden
                /\ posts'[a] = 1
          /\ timer[a].st = "fired" =>
                /\ timer'[a] = timer[a]
                /\ net'[a] = "aborted"
                /\ attPc'[a] = "done"
                /\ posts'[a] = 1]_vars

C5_Witness ==
    \E a \in Att :
        /\ timer[a].st = "fired" /\ net[a] = "aborted"
        /\ statusText = MsgTimeout

(* --------------------- progress of a sent attempt ---------------------- *)
\* The browser runs a timer that is armed and not cleared, and every image
\* decode ends in onload or onerror: these steps are assumed to happen.  The
\* server may stay silent, and a body may never finish arriving, so no step of
\* the network is assumed.
FairSpec ==
    /\ Spec
    /\ \A a \in Att : WF_vars(TimerFire(a)) /\ WF_vars(HeuristicDone(a))
    /\ \A s \in Sel : WF_vars(ProbeDone(s))

\* C4: every attempt that is sending eventually ends (with a result or with
\* one of the errors: every return of onAnalyzeClick after the POST sets one).
C4_EverySendTerminates ==
    \A a \in Att : Sending(a) ~> attPc[a] = "done"

(* ------------------------ reading a 2xx reply -------------------------- *)
\* a 2xx body as the classifier's contract describes it: a structured body
\* with a non-empty string class and a numeric confidence within [0,1]
WellFormed(b) ==
    /\ b.kind = "object"
    /\ b.class.t = "string" /\ b.class.s # ""
    /\ b.confidence.t = "number"
    /\ b.confidence.n >= 0 /\ b.confidence.n <= 1000000

\* C6: an attempt that has read a 2xx body shows a result only if the body is
\* well formed; on any other body it reports a malformed response and no
\* result is on display.
C6_MalformedRejected ==
    [][\A a \in Att, b \in OkBodies : JsonDone(a, b) /\ ~WellFormed(b) =>
          /\ statusText' = MsgUnexpected /\ statusError'
          /\ resultHidden']_vars

\* C7: an attempt that has read a well-formed body ends with the result on
\* display, holding the body's class and its confidence as a percentage; at
\* 0.70 and above the status is empty and no warning is shown, below 0.70 the
\* low-confidence message and the explanatory warning are shown.
C7_ConfidenceClassified ==
    [][\A a \in Att, b \in OkBodies : JsonDone(a, b) /\ WellFormed(b) =>
          /\ ~resultHidden'
          /\ resultClassText' = b.class.s
          /\ resultConfText' = ToFixed1Pct(b.confidence.n)
          /\ b.confidence.n >= 700000 =>
                statusText' = MsgNone /\ ~statusError' /\ explainHidden'
          /\ b.confidence.n < 700000 =>
                statusText' = MsgLowConf /\ statusError' /\ ~explainHidden']_vars

(* -------------------------- selecting a file --------------------------- *)
\* the messages an ended attempt leaves in the status line
AttemptErrors ==
    {MsgTimeout, MsgNetwork, MsgUnexpected, MsgServerErr} \cup
    {ServerMessage(b) : b \in ErrBodies}

\* the pipeline's state, read off the page and the pending calls
PipelineState ==
    IF \E a \in Att : Checking(a) THEN "Checking"
    ELSE IF \E a \in Att : Sending(a) THEN "Sending"
    ELSE IF ResultShown THEN "ResultReady"
    ELSE IF statusError /\ statusText \in AttemptErrors THEN "Error"
    ELSE IF files # None /\ ~previewRowHidden /\ previewSrc = files
    THEN "Previewed"
    ELSE "Idle"

\* the step in which the change handler of selection s returns
SelectionProcessed(s) == selPc[s] # "done" /\ selPc'[s] = "done"

\* C10: when a selection has been processed, whatever the state before, the
\* pipeline is Previewed with the selected file if that file satisfies the
\* policy, and otherwise Idle with an error shown and the input emptied; from
\* Idle or Previewed only an analyze request leads elsewhere.
C10_SelectionResets ==
    [][/\ \A s \in Sel : SelectionProcessed(s) =>
            IF selPc[s] = "probe" /\ ValidatedImage(FileNamed(selFile[s]))
            THEN /\ PipelineState' = "Previewed"
                 /\ files' = selFile[s]
            ELSE /\ PipelineState' = "Idle"
                 /\ files' = None
                 /\ statusError'
       /\ (PipelineState \in {"Idle", "Previewed"} /\ nAtt' = nAtt) =>
            PipelineState' \in {"Idle", "Previewed"}]_vars

(* ------------------------- the analyze trigger -------------------------- *)
\* C11: the analyze trigger is enabled only while a file that passed
\* validation and the dimension check is selected and previewed; it is
\* disabled at page load and after a selection that fails validation or the
\* dimension probe.
C11_TriggerOnlyWhenPreviewed ==
    ~analyzeDisabled =>
        /\ files # None
        /\ ValidatedImage(FileNamed(files))
        /\ ~previewRowHidden /\ previewSrc = files

(* ------------------------ retry after an error -------------------------- *)
\* the steps in which attempt a ends with Timeout, NetworkFailure, ServerError
\* or Malformed
ErrorExit(a) ==
    \/ TimerFire(a)
    \/ FetchFailed(a)
    \/ JsonFailed(a)
    \/ TextFailed(a)
    \/ \E b \in ErrBodies : TextDone(a, b)
    \/ \E b \in OkBodies : JsonDone(a, b) /\ (b.kind # "object" \/ Rejected(b))

RatioOf(a) == greenRatioHeuristic(FileNamed(attFile[a]))

\* C13: whatever the heuristic's outcome (a decode failure gives ratio 0), the
\* attempt goes from Checking to Sending and issues its POST; when the ratio is
\* below 0.18 the run leaves the not-a-leaf warning in the status line and the
\* explanation shown.
C13_HeuristicWarnsNeverBlocks ==
    [][\A a \in Att : HeuristicDone(a) =>
          /\ Sending(a)' /\ posts'[a] = 1 /\ net'[a] = "pending"
          /\ RatioOf(a) < GREEN_WARN =>
                /\ statusText' = MsgNotLeaf /\ statusError'
                /\ ~explainHidden']_vars

(* ------------------------- reading a non-2xx reply ---------------------- *)
\* the body carries a detail that is a non-empty string
HasDetailString(b) == b.kind = "object" /\ b.detail.t = "string" /\ b.detail.s # ""

AttemptMoves ==
    {<<"idle", "heuristic">>, <<"idle", "done">>, <<"heuristic", "fetch">>,
     <<"fetch", "text">>, <<"fetch", "json">>, <<"fetch", "done">>,
     <<"text", "done">>, <<"json", "done">>}

\* C15: within an attempt the request is issued in the step in which the
\* heuristic resolves and not before; the reply is read only after fetch has
\* resolved (request sent, headers received, timer cleared); and a result
\* comes on display only in the step in which an attempt finishes reading a
\* reply.
C15_StepsInOrder ==
    [][/\ \A a \in Att :
             /\ attPc'[a] # attPc[a] => <<attPc[a], attPc'[a]>> \in AttemptMoves
             /\ posts'[a] # posts[a] =>
                   Checking(a) /\ attPc'[a] = "fetch" /\ posts'[a] = 1
             /\ attPc'[a] \in {"idle", "heuristic"} =>
                   posts'[a] = 0 /\ net'[a] = "none" /\ timer'[a].st = "unset"
             /\ attPc'[a] = "fetch" =>
                   posts'[a] = 1 /\ net'[a] = "pending" /\ timer'[a].st = "armed"
             /\ attPc'[a] \in {"text", "json"} =>
                   posts'[a] = 1 /\ net'[a] = "headers" /\ timer'[a].st = "cleared"
       /\ (resultHidden /\ ~resultHidden') =>
             \E a \in Att : /\ attPc[a] = "json" /\ net[a] = "headers"
                            /\ attPc'[a] = "done"]_vars

\* an attempt has gone through every step and its result is on display
C15_Witness ==
    /\ ResultShown
    /\ \E a \in Att : /\ attPc[a] = "done" /\ posts[a] = 1
                      /\ net[a] = "closed" /\ timer[a].st = "cleared"
    /\ \A a \in Att : ~InFlight(a)

(* --------------------------- one POST per attempt ----------------------- *)
RECURSIVE SumPosts(_)
\* POSTs issued by the attempts 1..n
SumPosts(n) == IF n = 0 THEN 0 ELSE posts[n] + SumPosts(n - 1)

\* an attempt that was sent and has ended, whatever the outcome
SentAndEnded(a) == attPc[a] = "done" /\ net[a] \in {"closed", "aborted"}

\* C16: an attempt issues its POST once, when it starts sending, and no
\* further one whatever its outcome; every POST belongs to a click, so there
\* are never more POSTs than analyze requests.
C16_OnePostPerAttempt ==
    [][/\ \A a \in Att :
             /\ posts'[a] <= 1
             /\ posts'[a] # posts[a] => posts[a] = 0 /\ Checking(a) /\ Sending(a)'
             /\ Sending(a)' \/ SentAndEnded(a)' => posts'[a] = 1
             /\ a > nAtt' => posts'[a] = 0
       /\ SumPosts(MaxEvents - 1)' <= nAtt'
       /\ SumPosts(MaxEvents - 1)' # SumPosts(MaxEvents - 1) =>
             \E a \in Att : a <= nAtt /\ Checking(a)]_vars

\* two attempts, the first sent and ended before its timer fired, the second
\* being sent, each with its single POST
C16_Witness ==
    /\ nAtt = 2 /\ posts[1] = 1 /\ posts[2] = 1
    /\ SentAndEnded(1) /\ timer[1].st = "cleared"
    /\ statusText = MsgAnalyzing
    /\ Sending(2)

(* ------------------------------ object URLs ----------------------------- *)
\* C17: the object URLs created for earlier files (for the dimension probe,
\* the preview and the heuristic) are released when a new file is selected, so
\* that after a selection at most the new file's probe URL is live.
C17_HandlesReleased ==
    [][nSel' = nSel + 1 => liveUrls' <= 1]_vars

(* --------------- greenRatioHeuristic applied on its own ----------------- *)
\* pixels of the sampled buffer, and its length
MaxPixels == 2
MaxCalls == 2

Black == <<0, 0, 0>>
White == <<255, 255, 255>>
Green == <<0, 255, 0>>
Red   == <<255, 0, 0>>
Blue  == <<0, 0, 255>>
Grey  == <<128, 128, 128>>
Leaf  == <<40, 200, 30>>
Colours == {Black, White, Green, Red, Blue, Grey, Leaf}

Buffers == UNION {[1..n -> Colours] : n \in 1..MaxPixels}

\* images with these buffers, under two sets of attributes, and one that does
\* not decode
HeurFiles ==
    {MkFile("a", T_jpeg, 2 * 1024 * 1024, TRUE, 800, 600, px) : px \in Buffers} \cup
    {MkFile("b", T_png, 1000, TRUE, 64, 64, px) : px \in Buffers} \cup
    {MkFile("c", T_png, 1000, FALSE, 0, 0, <<>>)}

HeurInit ==
    /\ PageLoaded
    /\ vFile = None /\ vErr = "unset"
    /\ hFile = None /\ hRatio = NoRatio

\* greenRatioHeuristic(f) is called: the decode of f starts (l.103)
HeurCall(f) ==
    /\ hRatio # Pending
    /\ liveUrls < MaxCalls
    /\ hFile' = f
    /\ hRatio' = Pending
    /\ createObjectURL
    /\ UNCHANGED <<vFile, vErr, domVars, selVars, attVars>>

\* the decode ends and the promise resolves (l.100 or l.102)
HeurResolve ==
    /\ hRatio = Pending
    /\ hRatio' = greenRatioHeuristic(hFile)
    /\ UNCHANGED <<hFile, vFile, vErr, domVars, selVars, attVars, liveUrls>>

HeurNext == HeurResolve \/ \E f \in HeurFiles : HeurCall(f)

HeurSpec == HeurInit /\ [][HeurNext]_vars

(* ===================== properties of the green ratio ==================== *)
Measured == hRatio >= 0 /\ hFile.decodable
Uniform(px) == \A i \in 1..Len(hFile.data) : hFile.data[i] = px
\* r is v thousandths, within one thousandth
Near(r, v) == r >= v - 1 /\ r <= v + 1

\* C18 as stated: the ratio is 0.5 for an all-black and for an all-white
\* buffer and 1.0 for a pure-green buffer.
C18_NeutralAtHalf ==
    Measured =>
        /\ Uniform(Black) => Near(hRatio, 500)
        /\ Uniform(White) => Near(hRatio, 500)
        /\ Uniform(Green) => Near(hRatio, 1000)

\* C18 (amended): the ratio depends only on the buffer (any image with the
\* same buffer gives the same ratio), lies between 0 and 3, and is 0 for an
\* all-black buffer, 1.0 for an all-white or grey buffer and 3.0 for a
\* pure-green buffer.
C18_RatioOfGreenToMean ==
    Measured =>
        /\ \A f \in HeurFiles :
              f.decodable /\ f.data = hFile.data => greenRatioHeuristic(f) = hRatio
        /\ hRatio >= 0 /\ hRatio <= 3000
        /\ Uniform(Black) => hRatio = 0
        /\ Uniform(White) => Near(hRatio, 1000)
        /\ Uniform(Grey) => Near(hRatio, 1000)
        /\ Uniform(Green) => Near(hRatio, 3000)

C18_Witness ==
    /\ Measured /\ Len(hFile.data) = MaxPixels
    /\ Uniform(Green) /\ Near(hRatio, 3000)

(* ---------------------- whose result is on display ---------------------- *)
\* the steps in which attempt a puts its result on display
ShowsResult(a) ==
    \E b \in OkBodies : JsonDone(a, b) /\ b.kind = "object" /\ ~Rejected(b)

\* C19: an attempt puts its result on display only if the file it ran on is
\* the file that is selected at that moment; a selection takes the result of
\* the file selected before off the display.
C19_ResultOfSelectedFile ==
    [][/\ \A a \in Att : ShowsResult(a) => attFile[a] = files
       /\ nSel' = nSel + 1 => resultHidden']_vars

(* ------------------------------ the spinner ----------------------------- *)
\* C20: whenever no attempt is checking or sending, the spinner is hidden:
\* every way an attempt ends hides it, also when attempts overlap.
C20_SpinnerHiddenWhenIdle ==
    (\A a \in Att : ~InFlight(a)) => spinnerHidden

\* two attempts were sent and both have ended, one by its timeout
C20_Witness ==
    /\ \A a \in Att : ~InFlight(a)
    /\ spinnerHidden
    /\ \E a, b \in Att : /\ a # b /\ SentAndEnded(a) /\ SentAndEnded(b)
                         /\ timer[a].st = "fired"

====
